---- MODULE Spec2Model ----
(***************************************************************************)
(* State machine of the p2p signalling relay: the room registry, the       *)
(* client registry, the join handshake, the relay dispatcher and teardown, *)
(* for both servers of the repository: the Cloudflare worker (SignalHub,   *)
(* src/src/worker.js) and the Node server (src/unnamed/part_001).          *)
(*                                                                         *)
(* JavaScript values are tagged records: t is the value's type.  A string  *)
(* whose characters the code looks at (a channel name, a display name) is  *)
(* a sequence of one-character strings; a string the code only compares    *)
(* with literals (a message type, a status) is a TLA+ string.  A client id *)
(* (a UUID string) is a natural number; 0 is a UUID no connection has.     *)
(***************************************************************************)
EXTENDS Integers, Sequences, FiniteSets, TLC

\* Bounds of the model.
MaxClients == 3
MaxRandom == 1
MaxEnv == 2

VARIABLES server, env, conn, isAlive, clients, rooms, sent, last, known

vars == <<server, env, conn, isAlive, clients, rooms, sent, last, known>>

Ids == 1..MaxClients

(***************************************************************************)
(* JavaScript values                                                       *)
(***************************************************************************)
JUndef == [t |-> "undefined"]
JNull == [t |-> "null"]
JStr(s) == [t |-> "string", v |-> s]
JNum(n) == [t |-> "number", v |-> n]
JObj(f) == [t |-> "object", v |-> f]

\* o.k for an object; a primitive has no own fields.
Field(o, k) == IF o.t = "object" /\ k \in DOMAIN o.v THEN o.v[k] ELSE JUndef

\* Object.prototype.hasOwnProperty.call(o, k)
HasOwn(o, k) == o.t = "object" /\ k \in DOMAIN o.v

\* ToBoolean(x)
Truthy(x) ==
  CASE x.t = "undefined" -> FALSE
    [] x.t = "null" -> FALSE
    [] x.t = "string" -> x.v # <<>>
    [] x.t = "number" -> x.v # 0
    [] OTHER -> TRUE

\* Mutant of Coalesce: x || d, which also replaces the falsy values.
CoalesceFalsy(x, d) == IF ~Truthy(x) THEN d ELSE x

\* x ?? d
Coalesce(x, d) == IF x.t \in {"undefined", "null"} THEN d ELSE x

(***************************************************************************)
(* Characters                                                              *)
(***************************************************************************)
LowerLetters ==
  <<"a", "b", "c", "d", "e", "f", "g", "h", "i", "j", "k", "l", "m",
    "n", "o", "p", "q", "r", "s", "t", "u", "v", "w", "x", "y", "z">>

UpperLetters ==
  <<"A", "B", "C", "D", "E", "F", "G", "H", "I", "J", "K", "L", "M",
    "N", "O", "P", "Q", "R", "S", "T", "U", "V", "W", "X", "Y", "Z">>

DigitChars == <<"0", "1", "2", "3", "4", "5", "6", "7", "8", "9">>

Range(s) == {s[i] : i \in DOMAIN s}

\* The characters of /\s/ that the model's inputs use.
WhiteSpace == {" ", "\t", "\n"}

\* String.prototype.toLowerCase, character by character.
LowerCaseOf ==
  [c \in Range(UpperLetters) |->
     LowerLetters[CHOOSE i \in DOMAIN UpperLetters : UpperLetters[i] = c]]

LowerChar(c) == IF c \in DOMAIN LowerCaseOf THEN LowerCaseOf[c] ELSE c

toLowerCase(s) == [i \in DOMAIN s |-> LowerChar(s[i])]

\* String(n) for a natural number n.
RECURSIVE DecimalDigits(_)
DecimalDigits(n) ==
  IF n < 10 THEN <<DigitChars[n + 1]>>
  ELSE DecimalDigits(n \div 10) \o <<DigitChars[(n % 10) + 1]>>

Min(a, b) == IF a < b THEN a ELSE b

(***************************************************************************)
(* Identity and validation helpers                                         *)
(***************************************************************************)
\* Mutant of KeySeparator: a character of the channel names separates.
KeySeparatorDash == <<"-">>

\* The separator of a room key.
KeySeparator == <<":", ":">>

roomKey(app, room) == app \o KeySeparator \o room

\* The characters of the class [a-zA-Z0-9_-].
ChannelChars ==
  Range(LowerLetters) \cup Range(UpperLetters) \cup Range(DigitChars) \cup {"_", "-"}

MaxChannelLen == 64

validChannelName(value) ==
  /\ value.t = "string"
  /\ Len(value.v) > 0
  /\ Len(value.v) <= MaxChannelLen
  /\ \A i \in DOMAIN value.v : value.v[i] \in ChannelChars

\* String(value) for the values the model's inputs use.
ToText(value) ==
  CASE value.t = "string" -> value.v
    [] value.t = "number" -> DecimalDigits(value.v)
    [] value.t = "undefined" -> <<"u", "n", "d", "e", "f", "i", "n", "e", "d">>
    [] value.t = "null" -> <<"n", "u", "l", "l">>
    [] OTHER -> <<"[", "o", "b", "j", "e", "c", "t", " ", "O", "b", "j", "e", "c", "t", "]">>

\* s.replace(/\s+/g, " "): every maximal run of white space becomes one space.
RECURSIVE CollapseSpaces(_)
CollapseSpaces(s) ==
  IF s = <<>> THEN <<>>
  ELSE IF Head(s) \in WhiteSpace
    THEN IF Len(s) > 1 /\ s[2] \in WhiteSpace
           THEN CollapseSpaces(Tail(s))
           ELSE <<" ">> \o CollapseSpaces(Tail(s))
    ELSE <<Head(s)>> \o CollapseSpaces(Tail(s))

RECURSIVE TrimStart(_)
TrimStart(s) ==
  IF s # <<>> /\ Head(s) \in WhiteSpace THEN TrimStart(Tail(s)) ELSE s

RECURSIVE TrimEnd(_)
TrimEnd(s) ==
  IF s # <<>> /\ s[Len(s)] \in WhiteSpace
    THEN TrimEnd(SubSeq(s, 1, Len(s) - 1))
    ELSE s

\* s.trim()
Trim(s) == TrimEnd(TrimStart(s))

MaxNameLen == 24

\* s.slice(0, n)
Slice(s, n) == SubSeq(s, 1, Min(n, Len(s)))

DefaultName == <<"P", "l", "a", "y", "e", "r">>

\* Mutant of normalizeDisplayName: an empty name is kept.
normalizeDisplayNameKeepsEmpty(value) ==
  Slice(Trim(CollapseSpaces(ToText(Coalesce(value, JStr(<<>>))))), MaxNameLen)

\* The text of the normalized display name.
normalizeDisplayName(value) ==
  LET cleaned == Slice(Trim(CollapseSpaces(ToText(Coalesce(value, JStr(<<>>))))), MaxNameLen)
  IN IF cleaned # <<>> THEN cleaned ELSE DefaultName

normalizePresenceStatus(value) ==
  IF value = JStr("playing") THEN "playing" ELSE "lobby"

\* A presence record {name, status}.
Meta(name, status) == JObj([name |-> JStr(name), status |-> JStr(status)])

normalizeMeta(input) ==
  LET meta == IF Truthy(input) /\ input.t = "object" THEN input ELSE JObj(<<>>)
  IN Meta(normalizeDisplayName(Field(meta, "name")),
          normalizePresenceStatus(Field(meta, "status")))

(***************************************************************************)
(* Registries                                                              *)
(***************************************************************************)
\* Map.prototype.set and Map.prototype.delete on a registry.
MapSet(map, k, v) == [x \in DOMAIN map \cup {k} |-> IF x = k THEN v ELSE map[x]]

\* Mutant of MapDelete: the entry stays.
MapDeleteNothing(map, k) == map

MapDelete(map, k) == [x \in DOMAIN map \ {k} |-> map[x]]

\* Set.prototype.add and Set.prototype.delete on a member set, which iterates
\* in insertion order.
SetAdd(members, id) ==
  IF id \in Range(members) THEN members ELSE Append(members, id)

\* Mutant of SetDelete: the id stays.
SetDeleteNothing(members, id) == members

SetDelete(members, id) == SelectSeq(members, LAMBDA m : m # id)

\* The record of a client that has not joined.
NewClient(id) == [id |-> id, app |-> JNull, room |-> JNull, meta |-> JNull]

\* Whether the connection of a client accepts a frame.
SocketOpen(id) == conn[id] \in {"open", "silent"}

\* One call of wsJson (worker) or json (Node): ok tells whether the frame left.
Send(to, payload) == [to |-> to, msg |-> payload, ok |-> SocketOpen(to)]

\* The configured maximum room size of the worker.
DefaultMaxRoomSize == 64

MinMaxRoomSize == 2

maxRoomSize ==
  LET raw == Coalesce(env, JNum(DefaultMaxRoomSize)).v
  IN IF raw < MinMaxRoomSize THEN DefaultMaxRoomSize ELSE raw

\* The configured maximum room size of the Node server.
MAX_ROOM_SIZE == Coalesce(env, JNum(DefaultMaxRoomSize)).v

(***************************************************************************)
(* Name allocator                                                          *)
(***************************************************************************)
\* Mutant of roomUsedNames: the names are collected as they are written.
roomUsedNamesCaseSensitive(key, ignoreId) ==
  IF key \notin DOMAIN rooms THEN {}
  ELSE LET members == rooms[key]
           NameOf(memberId) ==
             IF memberId \in DOMAIN clients
               THEN Field(clients[memberId].meta, "name")
               ELSE JUndef
       IN {NameOf(members[i]).v :
             i \in {j \in DOMAIN members :
                      /\ members[j] # ignoreId
                      /\ NameOf(members[j]).t = "string"
                      /\ Truthy(NameOf(members[j]))}}

roomUsedNames(key, ignoreId) ==
  IF key \notin DOMAIN rooms THEN {}
  ELSE LET members == rooms[key]
           NameOf(memberId) ==
             IF memberId \in DOMAIN clients
               THEN Field(clients[memberId].meta, "name")
               ELSE JUndef
       IN {toLowerCase(NameOf(members[i]).v) :
             i \in {j \in DOMAIN members :
                      /\ members[j] # ignoreId
                      /\ NameOf(members[j]).t = "string"
                      /\ Truthy(NameOf(members[j]))}}

SuffixBase == 100

SuffixSpan == 900

\* The values randomSuffix() takes in the model: the first MaxRandom of
\* Math.floor(Math.random() * 900 + 100).
randomSuffix == {SuffixBase + k : k \in 0..(Min(MaxRandom, SuffixSpan) - 1)}

RandomTries == 500

FirstSequential == 2

SequentialLimit == 10000

ClockModulus == 100000

\* The sequential loop of uniqueName from n on, and its last resort.
RECURSIVE SequentialName(_, _, _)
SequentialName(base, used, n) ==
  IF n < SequentialLimit
    THEN IF toLowerCase(base \o DecimalDigits(n)) \notin used
           THEN {base \o DecimalDigits(n)}
           ELSE SequentialName(base, used, n + 1)
    ELSE {base \o DecimalDigits(now) : now \in 0..(ClockModulus - 1)}

\* Mutant of RandomName: the random loop is skipped.
RandomNameSequential(base, used) == SequentialName(base, used, FirstSequential)

\* The random loop of uniqueName: each of its RandomTries tries draws a suffix
\* and returns the candidate when it is free; the loop falls through to the
\* sequential loop when every draw hit a used name.
RandomName(base, used) ==
  LET free == {r \in randomSuffix : toLowerCase(base \o DecimalDigits(r)) \notin used}
  IN IF RandomTries > 0
       THEN {base \o DecimalDigits(r) : r \in free}
              \cup (IF free # randomSuffix
                      THEN SequentialName(base, used, FirstSequential)
                      ELSE {})
       ELSE SequentialName(base, used, FirstSequential)

\* The names uniqueName can return.
uniqueName(baseName, key, ignoreId) ==
  LET base == normalizeDisplayName(baseName)
      used == roomUsedNames(key, ignoreId)
  IN IF toLowerCase(base) \notin used THEN {base} ELSE RandomName(base, used)

(***************************************************************************)
(* Handlers.  Every handler sets rooms', clients' and sent', the calls of  *)
(* wsJson/json it made in order.                                           *)
(***************************************************************************)
\* A handler that returns without a send or a mutation.
Return == /\ UNCHANGED <<rooms, clients>>
          /\ sent' = <<>>

\* Mutant of Reply: the answered client is dropped from the client registry.
ReplyAndForget(id, payload) == /\ rooms' = rooms
                               /\ clients' = MapDelete(clients, id)
                               /\ sent' = <<Send(id, payload)>>

\* A handler that answers the sender alone and mutates nothing.
Reply(id, payload) == /\ UNCHANGED <<rooms, clients>>
                      /\ sent' = <<Send(id, payload)>>

Error(reason) == [type |-> "error", reason |-> reason]

\* Mutant of Registered: the test of the registry is inverted.
RegisteredInverted(ids) == SelectSeq(ids, LAMBDA m : m \notin DOMAIN clients)

\* The members of a sequence of ids that the client registry holds.
Registered(ids) == SelectSeq(ids, LAMBDA m : m \in DOMAIN clients)

\* Mutant of AfterLeave: the emptied room stays in the registry.
AfterLeaveKeepsEmpty(map, key, members) == MapSet(map, key, members)

\* The room registry once a member left: if (members.size === 0) rooms.delete(key).
AfterLeave(map, key, members) ==
  IF Len(members) = 0 THEN MapDelete(map, key) ELSE MapSet(map, key, members)

\* The sends of a fan-out that ends at its first failed send.
UpToFailure(sends) ==
  LET failed == {i \in DOMAIN sends : ~sends[i].ok}
  IN IF failed = {} THEN sends
     ELSE SubSeq(sends, 1, CHOOSE i \in failed : \A j \in failed : i <= j)

\* Mutant of leaveRoom: a failed send throws out of the loop, before the
\* room and the client are deleted.
leaveRoomAborts(clientId) ==
  IF clientId \notin DOMAIN clients THEN Return
  ELSE LET client == clients[clientId]
           key == roomKey(client.app.v, client.room.v)
       IN IF Truthy(client.app) /\ Truthy(client.room) /\ key \in DOMAIN rooms
            THEN LET members == SetDelete(rooms[key], clientId)
                     notified == Registered(members)
                     sends == [i \in DOMAIN notified |->
                                 Send(notified[i], [type |-> "peer-left", id |-> clientId])]
                 IN /\ sent' = UpToFailure(sends)
                    /\ IF UpToFailure(sends) = sends
                         THEN /\ rooms' = AfterLeave(rooms, key, members)
                              /\ clients' = MapDelete(clients, clientId)
                         ELSE /\ rooms' = MapSet(rooms, key, members)
                              /\ clients' = clients
            ELSE /\ sent' = <<>>
                 /\ rooms' = rooms
                 /\ clients' = MapDelete(clients, clientId)

leaveRoom(clientId) ==
  IF clientId \notin DOMAIN clients THEN Return
  ELSE LET client == clients[clientId]
           key == roomKey(client.app.v, client.room.v)
       IN /\ IF Truthy(client.app) /\ Truthy(client.room) /\ key \in DOMAIN rooms
               THEN LET members == SetDelete(rooms[key], clientId)
                        notified == Registered(members)
                    IN /\ sent' = [i \in DOMAIN notified |->
                                     Send(notified[i], [type |-> "peer-left", id |-> clientId])]
                       /\ rooms' = AfterLeave(rooms, key, members)
               ELSE /\ sent' = <<>>
                    /\ rooms' = rooms
          /\ clients' = MapDelete(clients, clientId)

\* Mutant of relayPeerMeta: the client itself is not skipped among the members.
relayPeerMetaToAll(client, includeSelfAck) ==
  IF ~(Truthy(client.app) /\ Truthy(client.room)) THEN <<>>
  ELSE LET key == roomKey(client.app.v, client.room.v)
       IN IF key \notin DOMAIN rooms THEN <<>>
          ELSE LET peers == Registered(rooms[key])
               IN (IF includeSelfAck
                     THEN <<Send(client.id, [type |-> "meta-updated", id |-> client.id,
                                             meta |-> client.meta])>>
                     ELSE <<>>)
                  \o [i \in DOMAIN peers |->
                        Send(peers[i], [type |-> "peer-meta", id |-> client.id,
                                        meta |-> client.meta])]

\* The sends of relayPeerMeta for a client whose record is `client`.
relayPeerMeta(client, includeSelfAck) ==
  IF ~(Truthy(client.app) /\ Truthy(client.room)) THEN <<>>
  ELSE LET key == roomKey(client.app.v, client.room.v)
       IN IF key \notin DOMAIN rooms THEN <<>>
          ELSE LET peers == Registered(SetDelete(rooms[key], client.id))
               IN (IF includeSelfAck
                     THEN <<Send(client.id, [type |-> "meta-updated", id |-> client.id,
                                             meta |-> client.meta])>>
                     ELSE <<>>)
                  \o [i \in DOMAIN peers |->
                        Send(peers[i], [type |-> "peer-meta", id |-> client.id,
                                        meta |-> client.meta])]

\* Mutant of handleSetMeta: a field the patch leaves out falls back to its
\* default instead of keeping its value.
handleSetMetaResets(client, patch) ==
  IF ~Truthy(patch) \/ patch.t # "object"
    THEN Reply(client.id, Error("invalid-meta-patch"))
    ELSE LET key == roomKey(client.app.v, client.room.v)
             names == IF HasOwn(patch, "name")
                        THEN uniqueName(JStr(normalizeDisplayName(Field(patch, "name"))),
                                        key, client.id)
                        ELSE {DefaultName}
             status == IF HasOwn(patch, "status")
                         THEN normalizePresenceStatus(Field(patch, "status"))
                         ELSE "lobby"
         IN \E name \in names :
              LET next == [client EXCEPT !.meta = Meta(name, status)]
              IN /\ clients' = MapSet(clients, client.id, next)
                 /\ rooms' = rooms
                 /\ sent' = relayPeerMeta(next, TRUE)

handleSetMeta(client, patch) ==
  IF ~Truthy(patch) \/ patch.t # "object"
    THEN Reply(client.id, Error("invalid-meta-patch"))
    ELSE LET key == roomKey(client.app.v, client.room.v)
             names == IF HasOwn(patch, "name")
                        THEN uniqueName(JStr(normalizeDisplayName(Field(patch, "name"))),
                                        key, client.id)
                        ELSE {Coalesce(Field(client.meta, "name"), JStr(DefaultName)).v}
             status == IF HasOwn(patch, "status")
                         THEN normalizePresenceStatus(Field(patch, "status"))
                         ELSE Coalesce(Field(client.meta, "status"), JStr("lobby")).v
         IN \E name \in names :
              LET next == [client EXCEPT !.meta = Meta(name, status)]
              IN /\ clients' = MapSet(clients, client.id, next)
                 /\ rooms' = rooms
                 /\ sent' = relayPeerMeta(next, TRUE)

\* Mutant of SameRoom: only the application is compared.
SameRoomAppOnly(target, client) == target.app = client.app

\* The negation of target.app !== client.app || target.room !== client.room.
SameRoom(target, client) == target.app = client.app /\ target.room = client.room

\* Mutant of relayToTarget: the relayed message is echoed to the sender too.
relayToTargetAndSender(client, msg, type, field) ==
  LET targetId == Field(msg, "to")
  IN IF targetId.t # "string"
       THEN Reply(client.id, Error("missing-target"))
       ELSE IF targetId.v \notin DOMAIN clients
         THEN Reply(client.id, [type |-> "error", reason |-> "peer-not-found",
                                to |-> targetId])
         ELSE LET target == clients[targetId.v]
              IN IF ~SameRoom(target, client)
                   THEN Reply(client.id, [type |-> "error", reason |-> "peer-outside-room",
                                          to |-> targetId])
                   ELSE LET relayed ==
                              IF field = "signal"
                                THEN [type |-> type, from |-> client.id,
                                      signal |-> Coalesce(Field(msg, field), JNull)]
                                ELSE [type |-> type, from |-> client.id,
                                      payload |-> Coalesce(Field(msg, field), JNull)]
                        IN /\ UNCHANGED <<rooms, clients>>
                           /\ sent' = <<Send(target.id, relayed), Send(client.id, relayed)>>

\* The signal and direct branches: field is the relayed field's name.
relayToTarget(client, msg, type, field) ==
  LET targetId == Field(msg, "to")
  IN IF targetId.t # "string"
       THEN Reply(client.id, Error("missing-target"))
       ELSE IF targetId.v \notin DOMAIN clients
         THEN Reply(client.id, [type |-> "error", reason |-> "peer-not-found",
                                to |-> targetId])
         ELSE LET target == clients[targetId.v]
              IN IF ~SameRoom(target, client)
                   THEN Reply(client.id, [type |-> "error", reason |-> "peer-outside-room",
                                          to |-> targetId])
                   ELSE Reply(target.id,
                              IF field = "signal"
                                THEN [type |-> type, from |-> client.id,
                                      signal |-> Coalesce(Field(msg, field), JNull)]
                                ELSE [type |-> type, from |-> client.id,
                                      payload |-> Coalesce(Field(msg, field), JNull)])

\* Mutant of broadcast: the sender is not skipped.
broadcastToAll(client, msg) ==
  LET key == roomKey(client.app.v, client.room.v)
  IN IF key \notin DOMAIN rooms THEN Return
     ELSE LET peers == Registered(rooms[key])
          IN /\ UNCHANGED <<rooms, clients>>
             /\ sent' = [i \in DOMAIN peers |->
                           Send(peers[i], [type |-> "broadcast", from |-> client.id,
                                           payload |-> Coalesce(Field(msg, "payload"), JNull)])]

\* The broadcast branch.
broadcast(client, msg) ==
  LET key == roomKey(client.app.v, client.room.v)
  IN IF key \notin DOMAIN rooms THEN Return
     ELSE LET peers == Registered(SetDelete(rooms[key], client.id))
          IN /\ UNCHANGED <<rooms, clients>>
             /\ sent' = [i \in DOMAIN peers |->
                           Send(peers[i], [type |-> "broadcast", from |-> client.id,
                                           payload |-> Coalesce(Field(msg, "payload"), JNull)])]

handleJoinedClientMessage(client, msg) ==
  LET type == Field(msg, "type")
  IN CASE type = JStr("signal") -> relayToTarget(client, msg, "signal", "signal")
       [] type = JStr("direct") -> relayToTarget(client, msg, "direct", "payload")
       [] type = JStr("broadcast") -> broadcast(client, msg)
       [] type = JStr("set-meta") -> handleSetMeta(client, Field(msg, "patch"))
       [] type = JStr("ping") -> Reply(client.id, [type |-> "pong"])
       [] OTHER -> Reply(client.id, [type |-> "error", reason |-> "unknown-message-type",
                                     received |-> Coalesce(type, JNull)])

\* Mutant of RoomFull: the comparison is off by one.
RoomFullOffByOne(members, max) == Len(members) > max

\* members.size >= maxRoomSize
RoomFull(members, max) == Len(members) >= max

\* The join handshake of the client id under the maximum max.
handleFirstJoin(id, msg, max) ==
  IF Field(msg, "type") # JStr("join")
    THEN Reply(id, Error("join-required-first"))
    ELSE LET app == Field(msg, "app")
             room == Field(msg, "room")
             meta == Field(msg, "meta")
         IN IF ~validChannelName(app) \/ ~validChannelName(room)
              THEN Reply(id, Error("invalid-app-or-room"))
              ELSE LET key == roomKey(app.v, room.v)
                       members == IF key \in DOMAIN rooms THEN rooms[key] ELSE <<>>
                   IN IF RoomFull(members, max)
                        THEN Reply(id, [type |-> "error", reason |-> "room-full", max |-> max])
                        ELSE \E name \in uniqueName(Field(normalizeMeta(meta), "name"), key, id) :
                               LET nextMeta == Meta(name, Field(normalizeMeta(meta), "status").v)
                                   peers == members
                                   peerMeta == [i \in DOMAIN peers |->
                                                  [id |-> peers[i],
                                                   meta |-> IF peers[i] \in DOMAIN clients
                                                              THEN clients[peers[i]].meta
                                                              ELSE JNull]]
                                   notified == Registered(peers)
                               IN /\ rooms' = MapSet(rooms, key, SetAdd(members, id))
                                  /\ clients' = MapSet(clients, id,
                                                       [id |-> id, app |-> app, room |-> room,
                                                        meta |-> nextMeta])
                                  /\ sent' = <<Send(id, [type |-> "welcome", id |-> id,
                                                         app |-> app, room |-> room,
                                                         peers |-> peers, peerMeta |-> peerMeta,
                                                         meta |-> nextMeta, maxRoomSize |-> max])>>
                                             \o [i \in DOMAIN notified |->
                                                   Send(notified[i],
                                                        [type |-> "peer-joined", id |-> id,
                                                         meta |-> nextMeta])]

(***************************************************************************)
(* Frames                                                                  *)
(***************************************************************************)
\* A frame whose text is the JSON of v, and a frame whose text is no JSON.
Json(v) == [json |-> TRUE, value |-> v]

NotJson == [json |-> FALSE]

Msg(fields) == Json(JObj(fields))

(***************************************************************************)
(* Actions                                                                 *)
(***************************************************************************)
\* The transport behind each connection: "new" (not accepted yet), "open",
\* "silent" (open to the server, its peer answers nothing and closes nothing),
\* "down" (closed or failed, its events not delivered yet), "terminated"
\* (ended by the server, its close event not delivered yet), "errored" (its
\* error event delivered, its close event not yet), "closed".
ConnStates == {"new", "open", "silent", "down", "terminated", "errored", "closed"}

Init ==
  /\ server \in {"worker", "node"}
  /\ env \in {JUndef} \cup {JNum(n) : n \in MinMaxRoomSize..MaxEnv}
  /\ conn = [id \in Ids |-> "new"]
  /\ isAlive = [id \in Ids |-> TRUE]
  /\ clients = <<>>
  /\ rooms = <<>>
  /\ sent = <<>>
  /\ last = [op |-> "init", id |-> 0, was |-> "gone"]
  /\ known = [m \in Ids |-> {}]

\* The history of what each connection was told: known[m] holds the ids that
\* m was sent in the peers of its welcome or in a peer-joined and was not sent
\* in a peer-left since; it is empty once the teardown of m has run.  This is
\* its value after a step that made the sends sent'.
Knowledge ==
  [m \in Ids |->
     IF (last'.op = "teardown" /\ last'.id = m) \/ conn'[m] = "closed"
       THEN {}
       ELSE LET to == {i \in DOMAIN sent' : sent'[i].to = m}
                listed == UNION {Range(sent'[i].msg.peers) :
                                   i \in {j \in to : sent'[j].msg.type = "welcome"}}
                joined == {sent'[i].msg.id :
                             i \in {j \in to : sent'[j].msg.type = "peer-joined"}}
                left == {sent'[i].msg.id :
                           i \in {j \in to : sent'[j].msg.type = "peer-left"}}
            IN (known[m] \cup listed \cup joined) \ left]

\* What a connection is to the server before a step: "joined" (in a room),
\* "connected" (accepted, not joined, not torn down), or "gone".
Was(id) ==
  IF id \in DOMAIN clients /\ Truthy(clients[id].app) /\ Truthy(clients[id].room)
    THEN "joined"
    ELSE CASE conn[id] = "new" -> "new"
           [] conn[id] \in {"open", "silent", "down", "terminated"} -> "connected"
           [] OTHER -> "gone"

\* SignalHub.fetch accepts a connection under a fresh id.
fetch(id) ==
  /\ server = "worker"
  /\ conn[id] = "new"
  /\ \A other \in Ids : other < id => conn[other] # "new"
  /\ conn' = [conn EXCEPT ![id] = "open"]
  /\ clients' = MapSet(clients, id, NewClient(id))
  /\ UNCHANGED rooms
  /\ sent' = <<>>
  /\ last' = [op |-> "connect", id |-> id, was |-> Was(id)]
  /\ UNCHANGED <<server, env, isAlive>>
  /\ known' = Knowledge

\* The connection listener of the Node server accepts a connection.
onConnection(id) ==
  /\ server = "node"
  /\ conn[id] = "new"
  /\ \A other \in Ids : other < id => conn[other] # "new"
  /\ conn' = [conn EXCEPT ![id] = "open"]
  /\ UNCHANGED <<rooms, clients>>
  /\ sent' = <<>>
  /\ isAlive' = [isAlive EXCEPT ![id] = TRUE]
  /\ last' = [op |-> "connect", id |-> id, was |-> Was(id)]
  /\ UNCHANGED <<server, env>>
  /\ known' = Knowledge

\* msg.type of a parsed frame throws a TypeError when msg is null.
Throws(raw) == raw.json /\ raw.value.t \in {"null", "undefined"}

\* The Node process ends on the exception no listener catches: its registries
\* and every connection go with it.
Crash ==
  /\ rooms' = <<>>
  /\ clients' = <<>>
  /\ sent' = <<>>
  /\ conn' = [c \in Ids |-> "closed"]

\* Mutant of IsJoined: every frame is taken for the first one.
IsJoinedNever(client) == FALSE

\* const joined = client.app && client.room
IsJoined(client) == Truthy(client.app) /\ Truthy(client.room)

\* SignalHub.handleMessage for a frame of connection id.
handleMessage(id, raw) ==
  /\ server = "worker"
  /\ conn[id] = "open"
  /\ IF id \notin DOMAIN clients THEN Return
     ELSE IF ~raw.json THEN Reply(id, Error("invalid-json"))
     ELSE LET msg == raw.value
              client == clients[id]
          IN IF Throws(raw) THEN Return  \* the listener ends on the TypeError
             ELSE IF ~IsJoined(client)
               THEN handleFirstJoin(id, msg, maxRoomSize)
               ELSE handleJoinedClientMessage(client, msg)
  /\ last' = [op |-> "message", id |-> id, was |-> Was(id)]
  /\ UNCHANGED <<server, env, conn, isAlive>>
  /\ known' = Knowledge

\* The message listener of the Node server for a frame of connection id.
onMessage(id, raw) ==
  /\ server = "node"
  /\ conn[id] = "open"
  /\ IF ~raw.json THEN Reply(id, Error("invalid-json")) /\ UNCHANGED conn
     ELSE LET msg == raw.value
          IN IF Throws(raw) THEN Crash
             ELSE /\ IF id \notin DOMAIN clients
                       THEN handleFirstJoin(id, msg, MAX_ROOM_SIZE)
                       ELSE handleJoinedClientMessage(clients[id], msg)
                  /\ UNCHANGED conn
  /\ last' = [op |-> "message", id |-> id, was |-> Was(id)]
  /\ UNCHANGED <<server, env, isAlive>>
  /\ known' = Knowledge

\* SignalHub.handleMessage for a frame that is delivered after the error event
\* of its connection and before its close event.
handleLateMessage(id, raw) ==
  /\ server = "worker"
  /\ conn[id] = "errored"
  /\ IF id \notin DOMAIN clients THEN Return
     ELSE IF ~raw.json THEN Reply(id, Error("invalid-json"))
     ELSE LET msg == raw.value
              client == clients[id]
          IN IF Throws(raw) THEN Return
             ELSE IF ~IsJoined(client)
               THEN handleFirstJoin(id, msg, maxRoomSize)
               ELSE handleJoinedClientMessage(client, msg)
  /\ last' = [op |-> "message", id |-> id, was |-> Was(id)]
  /\ UNCHANGED <<server, env, conn, isAlive>>
  /\ known' = Knowledge

\* The message listener of the Node server for a frame that is delivered
\* after the error event of its connection and before its close event.
onLateMessage(id, raw) ==
  /\ server = "node"
  /\ conn[id] = "errored"
  /\ IF ~raw.json THEN Reply(id, Error("invalid-json")) /\ UNCHANGED conn
     ELSE LET msg == raw.value
          IN IF Throws(raw) THEN Crash
             ELSE /\ IF id \notin DOMAIN clients
                       THEN handleFirstJoin(id, msg, MAX_ROOM_SIZE)
                       ELSE handleJoinedClientMessage(clients[id], msg)
                  /\ UNCHANGED conn
  /\ last' = [op |-> "message", id |-> id, was |-> Was(id)]
  /\ UNCHANGED <<server, env, isAlive>>
  /\ known' = Knowledge

\* The transport of a connection closes or fails.
TransportDown(id) ==
  /\ conn[id] = "open"
  /\ conn' = [conn EXCEPT ![id] = "down"]
  /\ UNCHANGED <<rooms, clients>>
  /\ sent' = <<>>
  /\ last' = [op |-> "down", id |-> id, was |-> Was(id)]
  /\ UNCHANGED <<server, env, isAlive>>
  /\ known' = Knowledge

\* The error listener: cleanup.
onError(id) ==
  /\ conn[id] = "down"
  /\ conn' = [conn EXCEPT ![id] = "errored"]
  /\ leaveRoom(id)
  /\ last' = [op |-> "teardown", id |-> id, was |-> Was(id)]
  /\ UNCHANGED <<server, env, isAlive>>
  /\ known' = Knowledge

\* The close listener: cleanup.
onClose(id) ==
  /\ conn[id] \in {"down", "terminated", "errored"}
  /\ conn' = [conn EXCEPT ![id] = "closed"]
  /\ leaveRoom(id)
  /\ last' = [op |-> "teardown", id |-> id, was |-> Was(id)]
  /\ UNCHANGED <<server, env, isAlive>>
  /\ known' = Knowledge

\* The peer of a connection stops answering and closes nothing.
Silent(id) ==
  /\ conn[id] = "open"
  /\ conn' = [conn EXCEPT ![id] = "silent"]
  /\ UNCHANGED <<rooms, clients>>
  /\ sent' = <<>>
  /\ last' = [op |-> "silent", id |-> id, was |-> Was(id)]
  /\ UNCHANGED <<server, env, isAlive>>
  /\ known' = Knowledge

\* The pong listener: the peer of an open connection answered the ping.
onPong(id) ==
  /\ server = "node"
  /\ conn[id] = "open"
  /\ ~isAlive[id]
  /\ isAlive' = [isAlive EXCEPT ![id] = TRUE]
  /\ UNCHANGED <<rooms, clients, conn>>
  /\ sent' = <<>>
  /\ last' = [op |-> "pong", id |-> id, was |-> Was(id)]
  /\ UNCHANGED <<server, env>>
  /\ known' = Knowledge

\* The connections of wss.clients.
Accepted == {id \in Ids : conn[id] \in {"open", "silent"}}

\* Mutant of heartbeat: the sweep pings and terminates nothing.
heartbeatPingsOnly ==
  /\ server = "node"
  /\ isAlive' = [id \in Ids |-> IF id \in Accepted THEN FALSE ELSE isAlive[id]]
  /\ UNCHANGED <<rooms, clients, conn>>
  /\ sent' = <<>>
  /\ last' = [op |-> "sweep", id |-> 0, was |-> "gone"]
  /\ UNCHANGED <<server, env>>
  /\ known' = Knowledge

\* One run of the heartbeat interval: a connection that has not answered
\* since the last run is terminated, the others are marked and pinged.
heartbeat ==
  /\ server = "node"
  /\ conn' = [id \in Ids |-> IF id \in Accepted /\ ~isAlive[id]
                                THEN "terminated" ELSE conn[id]]
  /\ isAlive' = [id \in Ids |-> IF id \in Accepted /\ isAlive[id]
                                   THEN FALSE ELSE isAlive[id]]
  /\ UNCHANGED <<rooms, clients>>
  /\ sent' = <<>>
  /\ last' = [op |-> "sweep", id |-> 0, was |-> "gone"]
  /\ UNCHANGED <<server, env>>
  /\ known' = Knowledge

(***************************************************************************)
(* Inputs                                                                  *)
(***************************************************************************)
AppA == JStr(<<"a">>)

AppB == JStr(<<"b">>)

RoomR == JStr(<<"r">>)

RoomS == JStr(<<"s">>)

Channels == {<<AppA, RoomR>>, <<AppA, RoomS>>, <<AppB, RoomR>>}

Targets == {JStr(id) : id \in 0..MaxClients} \cup {JUndef}

JoinFrames(channels) ==
  {Msg([type |-> JStr("join"), app |-> ch[1], room |-> ch[2]]) : ch \in channels}

Frames ==
  JoinFrames({<<AppA, RoomR>>, <<AppB, RoomR>>})
  \cup {Msg([type |-> JStr("join"), app |-> JStr(<<"a", ":">>), room |-> RoomR])}
  \cup {Msg([type |-> JStr("set-meta"), patch |-> JObj([status |-> JStr("playing")])])}
  \cup {Msg([type |-> JStr("set-meta")])}
  \cup {Msg([type |-> JStr("ping")])}
  \cup {Msg([type |-> JStr("bye")])}
  \cup {NotJson}

RelayFrames ==
  JoinFrames(Channels)
  \cup {Msg([type |-> JStr("signal"), to |-> to, signal |-> JStr(<<"x">>)]) : to \in Targets}
  \cup {Msg([type |-> JStr("direct"), to |-> to, payload |-> JStr(<<"x">>)]) : to \in Targets}
  \cup {Msg([type |-> JStr("broadcast"), payload |-> JStr(<<"x">>)])}

Step(F) ==
  \/ \E id \in Ids : fetch(id)
  \/ \E id \in Ids : onConnection(id)
  \/ \E id \in Ids, raw \in F : handleMessage(id, raw)
  \/ \E id \in Ids, raw \in F : onMessage(id, raw)
  \/ \E id \in Ids : TransportDown(id)
  \/ \E id \in Ids : onError(id)
  \/ \E id \in Ids : onClose(id)

\* Display names that collide case-insensitively, with and without a suffix.
JoinNames == {JStr(<<"A", "l">>), JStr(<<"A", "L">>)}

PatchNames == {JStr(<<" ", "a", "l", " ">>), JStr(<<"a", "l", "1", "0", "0">>)}

NameFrames ==
  JoinFrames({<<AppA, RoomR>>})
  \cup {Msg([type |-> JStr("join"), app |-> AppA, room |-> RoomR,
             meta |-> JObj([name |-> n])]) : n \in JoinNames}
  \cup {Msg([type |-> JStr("set-meta"), patch |-> JObj([name |-> n])]) : n \in PatchNames}

\* Patches that set the name, the status, both or neither, with values the
\* normalizers change and values they keep.
MetaPatches ==
  {[name |-> JStr(<<" ", "a", "l", " ">>)],
   [status |-> JStr("away")],
   [name |-> JStr(<<"A", "L">>), status |-> JStr("playing")],
   <<>>}

MetaFrames ==
  {Msg([type |-> JStr("join"), app |-> AppA, room |-> RoomR,
        meta |-> JObj([name |-> JStr(<<"A", "l">>)])])}
  \cup {Msg([type |-> JStr("set-meta"), patch |-> JObj(p)]) : p \in MetaPatches}

\* Frames that draw every error reply.
ErrorFrames ==
  JoinFrames({<<AppA, RoomR>>, <<AppB, RoomR>>})
  \cup {Msg([type |-> JStr("join"), app |-> JStr(<<"a", ":">>), room |-> RoomR])}
  \cup {Msg([type |-> JStr("set-meta")])}
  \cup {Msg([type |-> JStr("bye")])}
  \cup {NotJson}
  \cup {Msg([type |-> JStr("signal"), to |-> to, signal |-> JStr(<<"x">>)]) : to \in Targets}

\* Parsed JSON values that are no join message: null, a number, a string, an
\* object without a type, objects of other types.
NonJoinValues ==
  {JNull, JNum(5), JStr(<<"x">>), JObj(<<>>), JObj([type |-> JStr("ping")]),
   JObj([type |-> JNum(1)])}

FirstFrames ==
  JoinFrames({<<AppA, RoomR>>}) \cup {Json(v) : v \in NonJoinValues}

\* Frames of the four fan-outs in one room: peer-joined, peer-meta, broadcast
\* (peer-left comes with teardown).
FanOutFrames ==
  JoinFrames({<<AppA, RoomR>>})
  \cup {Msg([type |-> JStr("set-meta"), patch |-> JObj([status |-> JStr("playing")])])}
  \cup {Msg([type |-> JStr("broadcast"), payload |-> JStr(<<"x">>)])}

\* Payloads: null, the falsy 0 and "", a string and an object.
PayloadValues ==
  {JNull, JNum(0), JStr(<<>>), JStr(<<"x">>), JObj([sdp |-> JStr(<<"o">>)])}

\* Relay frames of one room with every payload, and without one.
PayloadFrames ==
  JoinFrames({<<AppA, RoomR>>})
  \cup {Msg([type |-> JStr("signal"), to |-> JStr(to), signal |-> v]) :
          to \in Ids, v \in PayloadValues}
  \cup {Msg([type |-> JStr("direct"), to |-> JStr(1), payload |-> v]) : v \in PayloadValues}
  \cup {Msg([type |-> JStr("broadcast"), payload |-> v]) : v \in PayloadValues}
  \cup {Msg([type |-> JStr("signal"), to |-> JStr(1)]),
        Msg([type |-> JStr("broadcast")])}

Next == Step(Frames)

Spec == Init /\ [][Next]_vars

NextRelay == Step(RelayFrames)

SpecRelay == Init /\ [][NextRelay]_vars

NextNames == Step(NameFrames)

SpecNames == Init /\ [][NextNames]_vars

NextErrors == Step(ErrorFrames)

SpecErrors == Init /\ [][NextErrors]_vars

NextFirst == Step(FirstFrames)

SpecFirst == Init /\ [][NextFirst]_vars

NextFanOut == Step(FanOutFrames)

SpecFanOut == Init /\ [][NextFanOut]_vars

NextPayload == Step(PayloadFrames)

SpecPayload == Init /\ [][NextPayload]_vars

NextMeta == Step(MetaFrames)

SpecMeta == Init /\ [][NextMeta]_vars

\* Joins of one room without metadata and asking for the default name.
PlayerJoin == Msg([type |-> JStr("join"), app |-> AppA, room |-> RoomR])

PlayerJoinNamed ==
  Msg([type |-> JStr("join"), app |-> AppA, room |-> RoomR,
       meta |-> JObj([name |-> JStr(DefaultName)])])

PlayerFrames == {PlayerJoin, PlayerJoinNamed}

NextPlayer == Step(PlayerFrames)

SpecPlayer == Init /\ [][NextPlayer]_vars

\* Frames that arrive on a connection after its teardown.
LateFrames == JoinFrames({<<AppA, RoomR>>}) \cup {Msg([type |-> JStr("ping")])}

NextLate ==
  \/ Step(LateFrames)
  \/ \E id \in Ids, raw \in LateFrames : handleLateMessage(id, raw)
  \/ \E id \in Ids, raw \in LateFrames : onLateMessage(id, raw)

SpecLate == Init /\ [][NextLate]_vars

\* Joins, relays and metadata changes of two rooms.
KnownFrames ==
  JoinFrames({<<AppA, RoomR>>, <<AppB, RoomR>>})
  \cup {Msg([type |-> JStr("signal"), to |-> JStr(to), signal |-> JStr(<<"x">>)]) :
          to \in Ids}
  \cup {Msg([type |-> JStr("direct"), to |-> JStr(1), payload |-> JStr(<<"x">>)])}
  \cup {Msg([type |-> JStr("broadcast"), payload |-> JStr(<<"x">>)])}
  \cup {Msg([type |-> JStr("set-meta"), patch |-> JObj([status |-> JStr("playing")])])}

NextKnown == Step(KnownFrames)

SpecKnown == Init /\ [][NextKnown]_vars

\* Joins and patches whose name is blank or absent and whose status is no
\* presence status.
BlankFrames ==
  {Msg([type |-> JStr("join"), app |-> AppA, room |-> RoomR]),
   Msg([type |-> JStr("join"), app |-> AppA, room |-> RoomR, meta |-> JNull]),
   Msg([type |-> JStr("join"), app |-> AppA, room |-> RoomR,
        meta |-> JObj([name |-> JStr(<<" ">>), status |-> JStr("away")])]),
   Msg([type |-> JStr("set-meta"), patch |-> JObj([name |-> JStr(<<>>)])]),
   Msg([type |-> JStr("set-meta"), patch |-> JObj([name |-> JNull, status |-> JNull])]),
   Msg([type |-> JStr("set-meta"), patch |-> JObj([status |-> JStr("playing")])])}

NextBlank == Step(BlankFrames)

SpecBlank == Init /\ [][NextBlank]_vars

\* A display name of the greatest length that normalizeDisplayName keeps, and
\* a short one.
LongName == [i \in 1..MaxNameLen |-> "a"]

ShortName == <<"A", "l">>

\* The names a client that asked for base can hold: base, or base with a
\* suffix of the random loop.
HeldNames(base) == {base} \cup {base \o DecimalDigits(r) : r \in randomSuffix}

\* Joins under the two names, and patches that set each name a client can
\* hold.
KeepFrames ==
  {Msg([type |-> JStr("join"), app |-> AppA, room |-> RoomR,
        meta |-> JObj([name |-> JStr(n)])]) : n \in {LongName, ShortName}}
  \cup {Msg([type |-> JStr("set-meta"), patch |-> JObj([name |-> JStr(n)])]) :
          n \in HeldNames(LongName) \cup HeldNames(ShortName)}

NextKeep == Step(KeepFrames)

SpecKeep == Init /\ [][NextKeep]_vars

\* Channel names that differ in where a "-" or a ":" stands.
KeyApps == {<<"a">>, <<"a", "-">>, <<"a", ":">>}

KeyRooms == {<<"a">>, <<"-", "a">>}

KeyNames == KeyApps \cup KeyRooms

KeyFrames ==
  {Msg([type |-> JStr("join"), app |-> JStr(a), room |-> JStr(r)]) :
     a \in KeyApps, r \in KeyRooms}

NextKeys == Step(KeyFrames)

SpecKeys == Init /\ [][NextKeys]_vars

\* The Node server with its heartbeat, and peers that fall silent.
LiveChannels == {<<AppA, RoomR>>}

LiveFrames == JoinFrames(LiveChannels)

InitLive == Init /\ server = "node"

NextLive ==
  \/ \E id \in Ids : onConnection(id)
  \/ \E id \in Ids, raw \in LiveFrames : onMessage(id, raw)
  \/ \E id \in Ids : Silent(id)
  \/ \E id \in Ids : TransportDown(id)
  \/ \E id \in Ids : onError(id)
  \/ \E id \in Ids : onClose(id)
  \/ \E id \in Ids : onPong(id)
  \/ heartbeat

\* setInterval runs the heartbeat again and again, and the close event of a
\* connection that ended is delivered.
SpecLive ==
  /\ InitLive
  /\ [][NextLive]_vars
  /\ WF_vars(heartbeat)
  /\ \A id \in Ids : WF_vars(onClose(id))

(***************************************************************************)
(* Claims                                                                  *)
(***************************************************************************)
\* The maximum room size the running server is configured with.
ConfiguredMax == IF server = "worker" THEN maxRoomSize ELSE MAX_ROOM_SIZE

\* The clients that completed the join handshake.
Joined(id) ==
  /\ id \in DOMAIN clients
  /\ Truthy(clients[id].app)
  /\ Truthy(clients[id].room)

KeyOf(id) == roomKey(clients[id].app.v, clients[id].room.v)

\* C1: in every reachable state every room's member set holds at most the
\* configured maximum number of client ids.
C1_RoomSizeBounded ==
  \A key \in DOMAIN rooms :
    /\ Cardinality(Range(rooms[key])) <= ConfiguredMax
    /\ Len(rooms[key]) <= ConfiguredMax

\* A room that holds exactly the configured maximum, after a join was refused.
C1_Witness ==
  /\ \E key \in DOMAIN rooms : Len(rooms[key]) = ConfiguredMax
  /\ Len(sent) = 1
  /\ sent[1].msg.type = "error"
  /\ sent[1].msg.reason = "room-full"

\* The join frame for a channel <<app, room>>.
JoinFrame(ch) == Msg([type |-> JStr("join"), app |-> ch[1], room |-> ch[2]])

\* The members of the room of a key, none when the registry has no such key.
MembersOf(key) == IF key \in DOMAIN rooms THEN rooms[key] ELSE <<>>

\* A step in which either server handles the frame raw of connection id.
Handles(id, raw) == handleMessage(id, raw) \/ onMessage(id, raw)

\* C2: a join of an unjoined client into a valid (app, room) is answered with
\* welcome when the room has fewer members than the configured maximum N, and
\* with error room-full carrying max = N when it has N members.
C2_JoinAcceptedBelowMax ==
  [][\A id \in Ids : \A ch \in Channels :
       LET key == roomKey(ch[1].v, ch[2].v)
       IN (/\ last'.op = "message"
           /\ last'.id = id
           /\ ~Joined(id)
           /\ Handles(id, JoinFrame(ch))) =>
            IF Len(MembersOf(key)) < ConfiguredMax
              THEN /\ Len(sent') >= 1
                   /\ sent'[1].to = id
                   /\ sent'[1].msg.type = "welcome"
                   /\ id \in Range(rooms'[key])
              ELSE /\ Len(MembersOf(key)) = ConfiguredMax
                   /\ sent' = <<Send(id, [type |-> "error", reason |-> "room-full",
                                          max |-> ConfiguredMax])>>
                   /\ rooms' = rooms]_vars

\* A join was refused with room-full carrying the configured maximum.
C2_Witness ==
  /\ Len(sent) = 1
  /\ sent[1].msg.type = "error"
  /\ sent[1].msg.reason = "room-full"
  /\ sent[1].msg.max = ConfiguredMax
  /\ \E key \in DOMAIN rooms : Len(rooms[key]) = ConfiguredMax /\ sent[1].to \notin Range(rooms[key])

\* The display name of a member, lower-cased.
LowerName(id) == toLowerCase(Field(clients[id].meta, "name").v)

\* C3: any two distinct members of one room have display names that differ
\* when compared case-insensitively.
C3_NamesUniquePerRoom ==
  \A key \in DOMAIN rooms :
    \A i, j \in DOMAIN rooms[key] :
      i # j => /\ rooms[key][i] \in DOMAIN clients
               /\ rooms[key][j] \in DOMAIN clients
               /\ LowerName(rooms[key][i]) # LowerName(rooms[key][j])

\* Two members of one room asked for the same name up to case: one holds it
\* and the other holds it with a suffix.
C3_Witness ==
  \E key \in DOMAIN rooms :
    \E i, j \in DOMAIN rooms[key] :
      /\ i # j
      /\ Len(LowerName(rooms[key][j])) > Len(LowerName(rooms[key][i]))
      /\ SubSeq(LowerName(rooms[key][j]), 1, Len(LowerName(rooms[key][i])))
           = LowerName(rooms[key][i])
      /\ Field(clients[rooms[key][i]].meta, "name").v # LowerName(rooms[key][i])

\* The keys of the rooms whose member set holds id.
RoomsOf(id) == {key \in DOMAIN rooms : id \in Range(rooms[key])}

\* C4: each client id is in at most one room's member set, and a client whose
\* app and room are non-null is a member of exactly the room keyed by them.
C4_OneRoomPerClient ==
  /\ \A id \in Ids : Cardinality(RoomsOf(id)) <= 1
  /\ \A key \in DOMAIN rooms :
       \A i, j \in DOMAIN rooms[key] : i # j => rooms[key][i] # rooms[key][j]
  /\ \A id \in DOMAIN clients :
       (clients[id].app.t # "null" /\ clients[id].room.t # "null")
         => RoomsOf(id) = {roomKey(clients[id].app.v, clients[id].room.v)}

\* Two rooms are populated at once, each client in the room it joined.
C4_Witness ==
  \E a, b \in DOMAIN clients :
    /\ Joined(a)
    /\ Joined(b)
    /\ KeyOf(a) # KeyOf(b)
    /\ RoomsOf(a) = {KeyOf(a)}
    /\ RoomsOf(b) = {KeyOf(b)}

\* C5: a room key is in the room registry if and only if its member set is
\* not empty: every entry has a member, and the keys are those of the joined
\* clients.
C5_RoomPresentIffNonEmpty ==
  /\ \A key \in DOMAIN rooms : Len(rooms[key]) > 0
  /\ DOMAIN rooms = {KeyOf(id) : id \in {j \in DOMAIN clients : Joined(j)}}

\* The teardown of the last member of a room has emptied the registry.
C5_Witness ==
  /\ last.op = "teardown"
  /\ last.was = "joined"
  /\ DOMAIN rooms = {}

\* C6: on a successful join the welcome lists in peers the ids that were
\* members just before the joiner was inserted, in insertion order and without
\* the joiner; each of them, and no one else, is sent one peer-joined with the
\* joiner's id and final metadata; the joiner is a member by then.
C6_WelcomeThenPeerJoined ==
  [][\A id \in Ids :
       (last'.op = "message" /\ last'.id = id /\ ~Joined(id) /\ Joined(id)') =>
         LET key == KeyOf(id)'
             before == MembersOf(key)
             meta == clients'[id].meta
         IN /\ id \notin Range(before)
            /\ id \in Range(rooms'[key])
            /\ Len(sent') = 1 + Len(before)
            /\ sent'[1].to = id
            /\ sent'[1].msg.type = "welcome"
            /\ sent'[1].msg.id = id
            /\ sent'[1].msg.peers = before
            /\ sent'[1].msg.meta = meta
            /\ \A i \in DOMAIN before :
                 /\ sent'[i + 1].to = before[i]
                 /\ sent'[i + 1].msg = [type |-> "peer-joined", id |-> id, meta |-> meta]]_vars

\* A client joined a room of two and both were told.
C6_Witness ==
  /\ last.op = "message"
  /\ Len(sent) = 3
  /\ sent[1].msg.type = "welcome"
  /\ Len(sent[1].msg.peers) = 2
  /\ sent[2].msg.type = "peer-joined"
  /\ sent[3].msg.type = "peer-joined"
  /\ sent[2].to # sent[3].to

\* C7: teardown removes the id from the client registry and from every room;
\* a joined client's remaining room members are each sent one peer-left with
\* its id and nobody else is sent anything; an unjoined client's teardown
\* sends nothing.
C7_TeardownNotifiesRoom ==
  [][\A id \in Ids :
       (last'.op = "teardown" /\ last'.id = id) =>
         /\ id \notin DOMAIN clients'
         /\ \A key \in DOMAIN rooms' : id \notin Range(rooms'[key])
         /\ IF Joined(id)
              THEN LET remaining == SetDelete(MembersOf(KeyOf(id)), id)
                   IN sent' = [i \in DOMAIN remaining |->
                                 Send(remaining[i], [type |-> "peer-left", id |-> id])]
              ELSE sent' = <<>>]_vars

\* A member of a room of three was torn down and the two others were told.
C7_Witness ==
  /\ last.op = "teardown"
  /\ last.was = "joined"
  /\ Len(sent) = 2
  /\ sent[1].msg = [type |-> "peer-left", id |-> last.id]
  /\ sent[2].msg = [type |-> "peer-left", id |-> last.id]
  /\ sent[1].to # sent[2].to

\* C8: a second teardown of the same client id (the close event after the
\* error event, whatever happened in between) changes neither registry and
\* sends nothing.
C8_TeardownIdempotent ==
  [][(last'.op = "teardown" /\ conn[last'.id] = "errored") =>
       /\ rooms' = rooms
       /\ clients' = clients
       /\ sent' = <<>>]_vars

\* The close event came after the error event of a client that had left a
\* room with members.
C8_Witness ==
  /\ last.op = "teardown"
  /\ last.was = "gone"
  /\ conn[last.id] = "closed"
  /\ DOMAIN rooms # {}
  /\ sent = <<>>

\* The signal (kind "signal") or direct frame addressed to the id to.
RelayFrame(kind, to) ==
  IF kind = "signal"
    THEN Msg([type |-> JStr("signal"), to |-> JStr(to), signal |-> JStr(<<"x">>)])
    ELSE Msg([type |-> JStr("direct"), to |-> JStr(to), payload |-> JStr(<<"x">>)])

\* The message a relay frame of the sender id is forwarded as.
Relayed(kind, id) ==
  IF kind = "signal"
    THEN [type |-> "signal", from |-> id, signal |-> JStr(<<"x">>)]
    ELSE [type |-> "direct", from |-> id, payload |-> JStr(<<"x">>)]

\* C9: a signal or direct message of a joined sender to a joined client of
\* another (app, room) is answered to the sender with error peer-outside-room
\* and nothing is sent to the target.
C9_OutsideRoomRejected ==
  [][\A id \in Ids, to \in Ids, kind \in {"signal", "direct"} :
       (/\ last'.op = "message"
        /\ last'.id = id
        /\ Joined(id)
        /\ Joined(to)
        /\ KeyOf(id) # KeyOf(to)
        /\ Handles(id, RelayFrame(kind, to))) =>
         /\ sent' = <<Send(id, [type |-> "error", reason |-> "peer-outside-room",
                                to |-> JStr(to)])>>
         /\ \A i \in DOMAIN sent' : sent'[i].to # to]_vars

\* A relay to a member of another room was refused.
C9_Witness ==
  /\ last.op = "message"
  /\ Len(sent) = 1
  /\ sent[1].msg.type = "error"
  /\ sent[1].msg.reason = "peer-outside-room"
  /\ sent[1].to = last.id
  /\ Joined(last.id)
  /\ Joined(sent[1].msg.to.v)
  /\ KeyOf(last.id) # KeyOf(sent[1].msg.to.v)

\* C10: a signal or direct message of a joined sender to a member of its room
\* is forwarded once, with from = the sender's id, to that member, and nothing
\* is sent to anyone else.
C10_RelayToTargetOnly ==
  [][\A id \in Ids, to \in Ids, kind \in {"signal", "direct"} :
       (/\ last'.op = "message"
        /\ last'.id = id
        /\ Joined(id)
        /\ to \in Range(MembersOf(KeyOf(id)))
        /\ Handles(id, RelayFrame(kind, to))) =>
         /\ sent' = <<Send(to, Relayed(kind, id))>>
         /\ rooms' = rooms
         /\ clients' = clients]_vars

\* A relay reached another member of the sender's room.
C10_Witness ==
  /\ last.op = "message"
  /\ Len(sent) = 1
  /\ sent[1].msg.type \in {"signal", "direct"}
  /\ sent[1].msg.from = last.id
  /\ sent[1].to # last.id
  /\ sent[1].ok
  /\ Joined(last.id)
  /\ sent[1].to \in Range(MembersOf(KeyOf(last.id)))

\* The broadcast frame with the payload "x".
BroadcastFrame == Msg([type |-> JStr("broadcast"), payload |-> JStr(<<"x">>)])

\* C11: a broadcast of a joined sender is sent once, with from = the sender's
\* id, to every other member of the sender's room, in member order, and to
\* nobody else: not to the sender, not to a client of another room.
C11_BroadcastToRoomOthers ==
  [][\A id \in Ids :
       (/\ last'.op = "message"
        /\ last'.id = id
        /\ Joined(id)
        /\ Handles(id, BroadcastFrame)) =>
         LET others == SetDelete(MembersOf(KeyOf(id)), id)
         IN /\ sent' = [i \in DOMAIN others |->
                          Send(others[i], [type |-> "broadcast", from |-> id,
                                           payload |-> JStr(<<"x">>)])]
            /\ rooms' = rooms
            /\ clients' = clients]_vars

\* A broadcast in a room of two while a third client is in another room: the
\* one other member was sent it.
C11_Witness ==
  /\ last.op = "message"
  /\ Joined(last.id)
  /\ Len(MembersOf(KeyOf(last.id))) = 2
  /\ Cardinality(DOMAIN rooms) = 2
  /\ Len(sent) = 1
  /\ sent[1].msg.type = "broadcast"
  /\ sent[1].msg.from = last.id
  /\ sent[1].to # last.id
  /\ sent[1].ok

\* The set-meta frame with the patch object of fields p.
SetMetaFrame(p) == Msg([type |-> JStr("set-meta"), patch |-> JObj(p)])

\* The lower-cased display names of the other members of the room of id.
OtherNames(id) ==
  {LowerName(m) : m \in Range(MembersOf(KeyOf(id))) \ {id}}

\* name is base followed by decimal digits.
IsSuffixed(name, base) ==
  /\ Len(name) > Len(base)
  /\ SubSeq(name, 1, Len(base)) = base
  /\ \A i \in (Len(base) + 1)..Len(name) : name[i] \in Range(DigitChars)

C13_SetMetaFanOut ==
  [][\A id \in Ids : \A p \in MetaPatches :
       (/\ last'.op = "message"
        /\ last'.id = id
        /\ Joined(id)
        /\ Handles(id, SetMetaFrame(p))) =>
         LET others == SetDelete(MembersOf(KeyOf(id)), id)
             meta == clients'[id].meta
         IN /\ sent' = <<Send(id, [type |-> "meta-updated", id |-> id, meta |-> meta])>>
                        \o [i \in DOMAIN others |->
                              Send(others[i], [type |-> "peer-meta", id |-> id,
                                               meta |-> meta])]
            /\ rooms' = rooms
            /\ \A other \in DOMAIN clients \ {id} : clients'[other] = clients[other]]_vars

\* A member of a room of three changed its metadata: it was acknowledged and
\* the two others were told, all with the new metadata.
C13_Witness ==
  /\ last.op = "message"
  /\ Len(sent) = 3
  /\ sent[1].msg.type = "meta-updated"
  /\ sent[1].to = last.id
  /\ sent[2].msg.type = "peer-meta"
  /\ sent[3].msg.type = "peer-meta"
  /\ {sent[2].to, sent[3].to} = Range(MembersOf(KeyOf(last.id))) \ {last.id}
  /\ sent[2].msg.meta = clients[last.id].meta
  /\ Field(clients[last.id].meta, "status") = JStr("playing")

\* The reasons of the error replies.
ErrorReasons ==
  {"invalid-json", "join-required-first", "invalid-app-or-room", "room-full",
   "missing-target", "peer-not-found", "peer-outside-room", "invalid-meta-patch",
   "unknown-message-type"}

\* C14: a request that is answered with an error reply changes neither the
\* room registry nor the client registry and causes exactly one send, the
\* error, to the sender.
C14_ErrorRepliesChangeNothing ==
  [][(/\ last'.op = "message"
      /\ \E i \in DOMAIN sent' : sent'[i].msg.type = "error") =>
       /\ Len(sent') = 1
       /\ sent'[1].to = last'.id
       /\ sent'[1].msg.reason \in ErrorReasons
       /\ rooms' = rooms
       /\ clients' = clients]_vars

\* A member of one of two rooms was refused a relay into the other room.
C14_Witness ==
  /\ last.op = "message"
  /\ last.was = "joined"
  /\ Cardinality(DOMAIN rooms) = 2
  /\ Len(sent) = 1
  /\ sent[1].to = last.id
  /\ sent[1].ok
  /\ sent[1].msg.type = "error"
  /\ sent[1].msg.reason = "peer-outside-room"

\* C15: every parsed JSON value that is no join message, from a connected
\* client that has not joined, is answered with error join-required-first,
\* and the registries and the connection stay as they were.
C15_NonJoinAnswered ==
  [][\A id \in Ids : \A v \in NonJoinValues :
       (/\ last'.op = "message"
        /\ last'.id = id
        /\ last'.was = "connected"
        /\ Handles(id, Json(v))) =>
         /\ sent' = <<Send(id, Error("join-required-first"))>>
         /\ rooms' = rooms
         /\ clients' = clients
         /\ conn' = conn]_vars

\* The reply to a join frame of a client that has joined.
JoinRefused ==
  [type |-> "error", reason |-> "unknown-message-type", received |-> JStr("join")]

\* C16: a client is promoted at most once: while it is in the client registry
\* its app and room, once set, do not change; a join frame of a joined client,
\* to its room or another, changes no registry and causes one send, the error
\* unknown-message-type, to the sender.
C16_PromotedOnce ==
  [][/\ \A id \in Ids :
          (Joined(id) /\ id \in DOMAIN clients') =>
            /\ clients'[id].app = clients[id].app
            /\ clients'[id].room = clients[id].room
     /\ \A id \in Ids : \A ch \in Channels :
          (/\ last'.op = "message"
           /\ last'.id = id
           /\ Joined(id)
           /\ Handles(id, JoinFrame(ch))) =>
            /\ sent' = <<Send(id, JoinRefused)>>
            /\ rooms' = rooms
            /\ clients' = clients]_vars

\* A member of a room with another member sent a join frame and was refused.
C16_Witness ==
  /\ last.op = "message"
  /\ last.was = "joined"
  /\ Joined(last.id)
  /\ Len(MembersOf(KeyOf(last.id))) >= 2
  /\ sent = <<Send(last.id, JoinRefused)>>

\* The frames of the fan-outs of a joined client.
BroadcastOrSetMeta ==
  {BroadcastFrame, SetMetaFrame([status |-> JStr("playing")])}

\* The room the join frame of FanOutFrames asks for.
FanOutKey == roomKey(AppA.v, RoomR.v)

\* The step is a fan-out of the client id: its teardown while joined, its
\* broadcast or set-meta, or its join into a room that is not full.
FansOut(id) ==
  /\ last'.id = id
  /\ \/ last'.op = "teardown" /\ Joined(id)
     \/ /\ last'.op = "message"
        /\ Joined(id)
        /\ \E raw \in BroadcastOrSetMeta : Handles(id, raw)
     \/ /\ last'.op = "message"
        /\ ~Joined(id)
        /\ Len(MembersOf(FanOutKey)) < ConfiguredMax
        /\ Handles(id, JoinFrame(<<AppA, RoomR>>))

\* The ids that step fans out to: the other members of the room.
FanOutPeers(id) ==
  IF Joined(id) THEN Range(MembersOf(KeyOf(id))) \ {id}
  ELSE Range(MembersOf(FanOutKey))

\* C17: when a send of a fan-out (peer-joined, peer-left, peer-meta,
\* broadcast) fails because a peer's connection is already closed and not yet
\* torn down, the handler still makes one send to every other member of the
\* room, every send to an open connection leaves, the registry mutation of the
\* operation is completed, and no error is sent.
C17_FanOutSurvivesFailedSend ==
  [][\A id \in Ids :
       (FansOut(id) /\ \E m \in FanOutPeers(id) : conn[m] # "open") =>
          /\ \A i \in DOMAIN sent' :
               /\ sent'[i].msg.type # "error"
               /\ sent'[i].ok = (conn[sent'[i].to] = "open")
          /\ \A m \in FanOutPeers(id) :
               Cardinality({i \in DOMAIN sent' : sent'[i].to = m}) = 1
          /\ IF last'.op = "teardown"
               THEN /\ id \notin DOMAIN clients'
                    /\ \A key \in DOMAIN rooms' : id \notin Range(rooms'[key])
               ELSE /\ Joined(id)'
                    /\ id \in Range(rooms'[KeyOf(id)'])
                    /\ Len(sent') >= 1
                    /\ (sent'[1].msg.type = "meta-updated" =>
                          sent'[1].msg.meta = clients'[id].meta)]_vars

\* A fan-out to two peers, one whose connection is down and one whose
\* connection is open: the send to the first failed and the second left.
C17_Witness ==
  /\ Len(sent) >= 2
  /\ \E i, j \in DOMAIN sent :
       /\ i < j
       /\ ~sent[i].ok
       /\ sent[j].ok
       /\ sent[i].msg.type = sent[j].msg.type
       /\ sent[i].msg.type \in {"peer-joined", "peer-left", "peer-meta", "broadcast"}

\* The relayed field of a relayed message.
PayloadOf(msg) == IF msg.type = "signal" THEN msg.signal ELSE msg.payload

\* The relay frame of a kind with the payload v, to the id to (a broadcast has
\* no target).
PayloadFrame(kind, to, v) ==
  CASE kind = "signal" -> Msg([type |-> JStr("signal"), to |-> JStr(to), signal |-> v])
    [] kind = "direct" -> Msg([type |-> JStr("direct"), to |-> JStr(to), payload |-> v])
    [] OTHER -> Msg([type |-> JStr("broadcast"), payload |-> v])

LiveKeys == {roomKey(ch[1].v, ch[2].v) : ch \in LiveChannels}

\* Connection id, a member of room key, has fallen silent.
SilentIn(id, key) ==
  /\ server = "node"
  /\ conn[id] = "silent"
  /\ Joined(id)
  /\ KeyOf(id) = key

\* The teardown of id has just run: id is in no registry and each member that
\* remains in room key was sent peer-left for id, and nothing else was sent.
TornDownIn(id, key) ==
  /\ last = [op |-> "teardown", id |-> id, was |-> "joined"]
  /\ id \notin DOMAIN clients
  /\ \A k \in DOMAIN rooms : id \notin Range(rooms[k])
  /\ sent = [i \in DOMAIN MembersOf(key) |->
               Send(MembersOf(key)[i], [type |-> "peer-left", id |-> id])]

\* C19: on the Node server, under fair scheduling of the heartbeat and of the
\* close event, a joined client whose connection has stopped answering and
\* closes nothing is eventually torn down: it leaves its room and the client
\* registry, and every member remaining in its room is sent peer-left for it
\* by the same cleanup that runs when a transport closes.
C19_SilentClientTornDown ==
  \A id \in Ids, key \in LiveKeys : SilentIn(id, key) ~> TornDownIn(id, key)

\* The heartbeat has terminated the connection of a joined client whose room
\* has another member.
C19_Witness ==
  \E id \in Ids :
    /\ conn[id] = "terminated"
    /\ ~isAlive[id]
    /\ Joined(id)
    /\ Len(MembersOf(KeyOf(id))) >= 2

\* A signal or direct frame addressed to client id t.
TargetFrame(kind, t) ==
  IF kind = "signal"
    THEN Msg([type |-> JStr("signal"), to |-> JStr(t), signal |-> JStr(<<"x">>)])
    ELSE Msg([type |-> JStr("direct"), to |-> JStr(t), payload |-> JStr(<<"x">>)])

\* A connection that was accepted and whose teardown has not run.
Connected(t) == t \in Ids /\ conn[t] \in {"open", "silent", "down"}

TargetError(reason, t) == [type |-> "error", reason |-> reason, to |-> JStr(t)]

\* C20: a signal or direct message of a joined client whose to is a string is
\* answered with peer-not-found if and only if no connected client, joined or
\* not yet joined, has that id; when to is the id of a connected client that
\* has not completed its join, the reply is peer-outside-room.
C20_PeerNotFoundIffNotConnected ==
  [][\A id \in Ids, t \in 0..MaxClients, kind \in {"signal", "direct"} :
       (/\ last'.op = "message"
        /\ last'.id = id
        /\ Joined(id)
        /\ Len(sent') = 1
        /\ Handles(id, TargetFrame(kind, t))) =>
          /\ (sent' = <<Send(id, TargetError("peer-not-found", t))>>) <=> ~Connected(t)
          /\ (Connected(t) /\ ~Joined(t)) =>
               sent' = <<Send(id, TargetError("peer-outside-room", t))>>]_vars

\* The names of KeyNames that validChannelName accepts.
ValidKeyNames == {n \in KeyNames : validChannelName(JStr(n))}

\* Clients i and j are members of one room.
ShareMemberSet(i, j) ==
  \E key \in DOMAIN rooms : i \in Range(rooms[key]) /\ j \in Range(rooms[key])

\* C21: the room key is injective on validated names: two pairs of names that
\* validChannelName accepts have the same key only if their apps are equal and
\* their rooms are equal, so two joined clients are members of one room
\* exactly when they joined with the same app and the same room.
C21_RoomKeyInjective ==
  /\ \A app1 \in ValidKeyNames, room1 \in ValidKeyNames,
        app2 \in ValidKeyNames, room2 \in ValidKeyNames :
        roomKey(app1, room1) = roomKey(app2, room2) => app1 = app2 /\ room1 = room2
  /\ \A i \in Ids, j \in Ids :
        (Joined(i) /\ Joined(j)) =>
          (ShareMemberSet(i, j) <=>
             (clients[i].app = clients[j].app /\ clients[i].room = clients[j].room))

\* Two clients joined (a-, a) and (a, -a), and are in two rooms.
C21_Witness ==
  \E i \in Ids, j \in Ids :
    /\ Joined(i)
    /\ Joined(j)
    /\ clients[i].app = JStr(<<"a", "-">>)
    /\ clients[i].room = JStr(<<"a">>)
    /\ clients[j].app = JStr(<<"a">>)
    /\ clients[j].room = JStr(<<"-", "a">>)
    /\ ~ShareMemberSet(i, j)

\* The key of the room that PlayerFrames join.
PlayerKey == roomKey(AppA.v, RoomR.v)

\* name is "Player" followed by one integer of [100, 999].
PlayerSuffixed(name) ==
  /\ name.t = "string"
  /\ \E n \in SuffixBase..(SuffixBase + SuffixSpan - 1) :
        name.v = DefaultName \o DecimalDigits(n)

\* C22: a client that joins an empty room with no metadata is welcomed with
\* peers = [] and meta = {name: "Player", status: "lobby"}; a second client
\* that then joins the room asking for the name "Player" is given, in its
\* welcome and in the peer-joined sent to the first client, the name "Player"
\* followed by one integer of [100, 999].
C22_DefaultNameThenSuffixed ==
  [][\A id \in Ids :
       /\ (/\ last'.op = "message"
           /\ last'.id = id
           /\ ~Joined(id)
           /\ MembersOf(PlayerKey) = <<>>
           /\ Handles(id, PlayerJoin)) =>
             /\ Len(sent') = 1
             /\ sent'[1].to = id
             /\ sent'[1].msg.type = "welcome"
             /\ sent'[1].msg.peers = <<>>
             /\ sent'[1].msg.meta = Meta(DefaultName, "lobby")
       /\ \A first \in Ids :
            (/\ last'.op = "message"
             /\ last'.id = id
             /\ ~Joined(id)
             /\ MembersOf(PlayerKey) = <<first>>
             /\ first \in DOMAIN clients
             /\ clients[first].meta = Meta(DefaultName, "lobby")
             /\ Handles(id, PlayerJoinNamed)) =>
               /\ Len(sent') = 2
               /\ sent'[1].to = id
               /\ sent'[1].msg.type = "welcome"
               /\ sent'[1].msg.peers = <<first>>
               /\ PlayerSuffixed(Field(sent'[1].msg.meta, "name"))
               /\ sent'[2].to = first
               /\ sent'[2].msg.type = "peer-joined"
               /\ sent'[2].msg.id = id
               /\ sent'[2].msg.meta = sent'[1].msg.meta]_vars

\* The second client of a room whose first is "Player" was named
\* "Player" with a suffix, and the first was told.
C22_Witness ==
  /\ last.op = "message"
  /\ Len(sent) = 2
  /\ sent[1].msg.type = "welcome"
  /\ Len(sent[1].msg.peers) = 1
  /\ sent[1].msg.peers[1] \in DOMAIN clients
  /\ clients[sent[1].msg.peers[1]].meta = Meta(DefaultName, "lobby")
  /\ PlayerSuffixed(Field(sent[1].msg.meta, "name"))
  /\ sent[2].msg.type = "peer-joined"
  /\ sent[2].msg.meta = sent[1].msg.meta

\* C23: once a client has been torn down, a message that still arrives on its
\* connection, a join included, is ignored: it changes neither registry, does
\* not put the client's id back into a room, and causes no message to any
\* other client.
C23_LateMessageIgnored ==
  [][\A id \in Ids :
       (/\ last'.op = "message"
        /\ last'.id = id
        /\ conn[id] = "errored"
        /\ id \notin DOMAIN clients) =>
          /\ rooms' = rooms
          /\ clients' = clients
          /\ \A key \in DOMAIN rooms' : id \notin Range(rooms'[key])
          /\ \A i \in DOMAIN sent' : sent'[i].to = id]_vars

\* The client a message of a peer originates from.
OriginOf(msg) == IF msg.type = "peer-meta" THEN msg.id ELSE msg.from

\* C24: a client M is sent a signal, direct, broadcast or peer-meta that
\* originates from another client X only while X is known to M and shares its room:
\* after M was sent peer-joined for X or a welcome that lists X, and before M
\* is sent peer-left for X; after peer-left for X nothing of X is sent to M.
C24_OnlyFromKnownPeers ==
  [][/\ \A i \in DOMAIN sent' :
          (/\ sent'[i].msg.type \in {"signal", "direct", "broadcast", "peer-meta"}
           /\ OriginOf(sent'[i].msg) # sent'[i].to) =>
            /\ OriginOf(sent'[i].msg) \in known[sent'[i].to]
            /\ Joined(sent'[i].to)
            /\ Joined(OriginOf(sent'[i].msg))
            /\ KeyOf(sent'[i].to) = KeyOf(OriginOf(sent'[i].msg))
     /\ \A i \in DOMAIN sent' :
          sent'[i].msg.type = "peer-left" =>
            /\ sent'[i].msg.id \notin known'[sent'[i].to]
            /\ sent'[i].msg.id \notin DOMAIN clients']_vars

\* After the teardown of a member, a client is sent the broadcast of a peer
\* that joined after it and that it knows, and no longer knows the one that
\* left.
C24_Witness ==
  /\ last.op = "message"
  /\ \E i \in DOMAIN sent :
       /\ sent[i].msg.type = "broadcast"
       /\ sent[i].ok
       /\ sent[i].msg.from > sent[i].to
       /\ known[sent[i].to] = {sent[i].msg.from}
       /\ \E x \in Ids \ {sent[i].to, sent[i].msg.from} : conn[x] = "closed"

\* A meta that is an object whose name is a non-empty string and whose status
\* is "lobby" or "playing".
WellFormedMeta(meta) ==
  /\ meta.t = "object"
  /\ Field(meta, "name").t = "string"
  /\ Len(Field(meta, "name").v) > 0
  /\ Field(meta, "status") \in {JStr("lobby"), JStr("playing")}

\* C25: in every reachable state every id of every room's member set is in
\* the client registry with a non-null meta whose name is a non-empty string
\* and whose status is "lobby" or "playing"; every peerMeta entry of a welcome
\* carries such a meta.
C25_MembersHaveMeta ==
  /\ \A key \in DOMAIN rooms :
       \A i \in DOMAIN rooms[key] :
         /\ rooms[key][i] \in DOMAIN clients
         /\ WellFormedMeta(clients[rooms[key][i]].meta)
  /\ \A i \in DOMAIN sent :
       sent[i].msg.type = "welcome" =>
         /\ Len(sent[i].msg.peerMeta) = Len(sent[i].msg.peers)
         /\ \A j \in DOMAIN sent[i].msg.peerMeta :
              /\ sent[i].msg.peerMeta[j].id = sent[i].msg.peers[j]
              /\ WellFormedMeta(sent[i].msg.peerMeta[j].meta)

\* A client that joined with a blank name and set a blank name again is
\* listed with its meta in the welcome of the next one.
C25_Witness ==
  /\ last.op = "message"
  /\ Len(sent) = 3
  /\ sent[1].msg.type = "welcome"
  /\ Len(sent[1].msg.peerMeta) = 2
  /\ \E j \in 1..2 :
       /\ IsSuffixed(Field(sent[1].msg.peerMeta[j].meta, "name").v, DefaultName)
       /\ Field(sent[1].msg.peerMeta[j].meta, "status") = JStr("playing")

\* C26: a joined client can always keep its own name: a set-meta whose
\* patch.name equals the client's current display name, a name the allocator
\* suffixed included, leaves meta.name unchanged.
C26_OwnNameKept ==
  [][\A id \in Ids : \A n \in HeldNames(LongName) \cup HeldNames(ShortName) :
       (/\ last'.op = "message"
        /\ last'.id = id
        /\ Joined(id)
        /\ Field(clients[id].meta, "name") = JStr(n)
        /\ Handles(id, SetMetaFrame([name |-> JStr(n)]))) =>
          /\ id \in DOMAIN clients'
          /\ Field(clients'[id].meta, "name") = JStr(n)]_vars

====
